---- MODULE Spec2Model ----
(***************************************************************************)
(* Hierarchy reconstruction of ddc-automation:                             *)
(*   Dialect A  src/fix_hierarchy_bruteforce_ranges.py         (Sch files) *)
(*   Dialect B  src/fix_hierarchy_bruteforce_ranges_tables.py  (Tables)    *)
(* A code is a Python str, modelled as a sequence of one-character         *)
(* strings.  Every string operation of the source (split, rsplit, lstrip,  *)
(* startswith, isdigit, int, sorted) is computed on those sequences.       *)
(***************************************************************************)
EXTENDS Integers, Sequences, FiniteSets, TLC

VARIABLES dialect, idx, used, src, out, rerun, REPORT, reportFile, aborted

\* The extraction driver (src/gemini.py), see the section on it below.
VARIABLES args, doc, checkpoints, manifest, processed_pages, merged,
          page_i, attempt, pc, final, runs, preloaded, sent, rewritten, failed

hierVars == <<dialect, idx, used, src, out, rerun, REPORT, reportFile, aborted>>

driverVars == <<args, doc, checkpoints, manifest, processed_pages, merged,
                page_i, attempt, pc, final, runs, preloaded, sent, rewritten,
                failed>>

vars == <<hierVars, driverVars>>

\* ------------------------------------------------------------ bounds
\* Records read by one run of main over all its files, an empty or
\* rejected file counting as one.
MaxEntries == 3

\* ------------------------------------------------------------ characters
Digits == {"0", "1", "2", "3", "4", "5", "6", "7", "8", "9"}

\* ord(ch) of the characters used by the inputs.
Ord(ch) ==
    CASE ch = "-" -> 45 [] ch = "." -> 46
      [] ch = "0" -> 48 [] ch = "1" -> 49 [] ch = "2" -> 50 [] ch = "3" -> 51
      [] ch = "4" -> 52 [] ch = "5" -> 53 [] ch = "6" -> 54 [] ch = "7" -> 55
      [] ch = "8" -> 56 [] ch = "9" -> 57 [] ch = ":" -> 58
      [] ch = "T" -> 84 [] ch = "V" -> 86 [] ch = "a" -> 97 [] ch = "e" -> 101
      [] ch = "l" -> 108 [] ch = "m" -> 109 [] ch = "o" -> 111
      [] ch = "u" -> 117 [] ch = "v" -> 118
      [] OTHER -> 0

DigitVal(ch) == Ord(ch) - 48

\* str.lower() of one character (re.IGNORECASE of ID_CODE_RE).
Lower(ch) == IF ch = "V" THEN "v" ELSE ch

\* Python None and the empty str, as values comparable with codes.
None == <<"None">>
EmptyStr == <<>>

\* ------------------------------------------------------------ str methods
SetOf(s) == {s[i] : i \in DOMAIN s}

\* s[a:] and s[:b] for 0-based Python slice bounds a, b within 0..len(s).
SliceFrom(s, a) == SubSeq(s, a + 1, Len(s))
SliceTo(s, b) == SubSeq(s, 1, b)

\* d.startswith(p)
StartsWith(d, p) == Len(p) <= Len(d) /\ SubSeq(d, 1, Len(p)) = p

\* The 1-based positions at which sep occurs in s.
Occurrences(s, sep) ==
    {i \in 1..(Len(s) - Len(sep) + 1) : SubSeq(s, i, i + Len(sep) - 1) = sep}

\* sep in s
Contains(s, sep) == Occurrences(s, sep) # {}

Min(S) == CHOOSE x \in S : \A y \in S : x <= y
Max(S) == CHOOSE x \in S : \A y \in S : x >= y

\* s.split(sep): leftmost, non-overlapping occurrences of sep.
RECURSIVE Split(_, _)
Split(s, sep) ==
    IF ~Contains(s, sep) THEN <<s>>
    ELSE LET i == Min(Occurrences(s, sep))
         IN <<SubSeq(s, 1, i - 1)>> \o Split(SubSeq(s, i + Len(sep), Len(s)), sep)

\* s.split(sep, 1)[0]
SplitFirstHead(s, sep) ==
    IF ~Contains(s, sep) THEN s ELSE SubSeq(s, 1, Min(Occurrences(s, sep)) - 1)

\* s.rsplit(sep, 1) for an s that contains sep: <<head, tail>>.
RSplit1(s, sep) ==
    LET i == Max(Occurrences(s, sep))
    IN <<SubSeq(s, 1, i - 1), SubSeq(s, i + Len(sep), Len(s))>>

\* sep.join(parts)
RECURSIVE Join(_, _)
Join(parts, sep) ==
    IF Len(parts) = 0 THEN <<>>
    ELSE IF Len(parts) = 1 THEN parts[1]
    ELSE parts[1] \o sep \o Join(Tail(parts), sep)

\* s.lstrip(ch)
RECURSIVE LStrip(_, _)
LStrip(s, ch) == IF Len(s) > 0 /\ s[1] = ch THEN LStrip(Tail(s), ch) ELSE s

\* s.isdigit()
IsDigit(s) == Len(s) > 0 /\ \A i \in DOMAIN s : s[i] \in Digits

\* The value of a str of decimal digits.
RECURSIVE DigitsValue(_)
DigitsValue(s) ==
    IF Len(s) = 0 THEN 0
    ELSE 10 * DigitsValue(SubSeq(s, 1, Len(s) - 1)) + DigitVal(s[Len(s)])

\* int(s) succeeds (no ValueError): an optional sign, then decimal digits.
IntOk(s) == IsDigit(s) \/ (Len(s) > 1 /\ s[1] = "-" /\ IsDigit(Tail(s)))

\* int(s), defined when IntOk(s).
IntVal(s) == IF s[1] = "-" THEN 0 - DigitsValue(Tail(s)) ELSE DigitsValue(s)

\* a < b for Python str (lexicographic by code point).
StrLess(a, b) ==
    \E k \in 1..(Len(b)) :
        /\ k - 1 <= Len(a)
        /\ SubSeq(a, 1, k - 1) = SubSeq(b, 1, k - 1)
        /\ (Len(a) < k \/ Ord(a[k]) < Ord(b[k]))

\* sorted(S, key=len) with ties in str order: shorter codes first.
RECURSIVE Sorted_shortest_first(_)
Sorted_shortest_first(S) ==
    IF S = {} THEN <<>>
    ELSE LET m == CHOOSE x \in S : \A y \in S \ {x} :
                      \/ Len(x) < Len(y)
                      \/ Len(x) = Len(y) /\ StrLess(x, y)
         IN <<m>> \o Sorted_shortest_first(S \ {m})

\* sorted(S) for a set S of str.
RECURSIVE Sorted(_)
Sorted(S) ==
    IF S = {} THEN <<>>
    ELSE LET m == CHOOSE x \in S : \A y \in S \ {x} : StrLess(x, y)
         IN <<m>> \o Sorted(S \ {m})

\* ------------------------------------------------------------ entries
\* A field that the record does not have.
Absent == <<"absent">>

\* The hierarchy field of a record: whether present, its sub-field names,
\* and the values of the sub-fields broader and narrower.
NoHier == [has |-> FALSE, keys |-> {}, broader |-> None, narrower |-> <<>>]

\* x is truthy (Python `if x:`) for x a str or None.
Truthy(x) == x # None /\ x # EmptyStr /\ x # Absent

\* The keys of code_to_entries after build_indices has run over es.
IndexCodes(es) ==
    {es[i].bfCode : i \in {j \in DOMAIN es : es[j].isDict /\ Truthy(es[j].bfCode)}}

\* ------------------------------------------------------------ Dialect A
\* ID_CODE_RE.match(idv): ^Volume\d+-(.+)$ ignoring case; group(1), or <<>>
\* when there is no match.
VolumeWord == <<"v", "o", "l", "u", "m", "e">>

ID_CODE_RE(idv) ==
    IF Len(idv) < 9 THEN <<>>
    ELSE IF [i \in 1..6 |-> Lower(idv[i])] # VolumeWord THEN <<>>
    ELSE LET nd == Min({k \in 0..(Len(idv) - 6) :
                          k = Len(idv) - 6 \/ idv[7 + k] \notin Digits})
         IN IF nd >= 1 /\ 7 + nd < Len(idv) /\ idv[7 + nd] = "-"
            THEN SliceFrom(idv, 7 + nd)
            ELSE <<>>

extract_code_A(entry) ==
    LET idv == IF Truthy(entry.id) THEN entry.id ELSE EmptyStr
        m == ID_CODE_RE(idv)
    IN IF m = <<>>
       THEN (IF Truthy(entry.notation) THEN entry.notation ELSE EmptyStr)
       ELSE m

\* split_range: <<left, right>>, or <<>> for None.
split_range_A(code) ==
    IF ~Contains(code, <<"-">>) THEN <<>>
    ELSE LET parts == Split(code, <<"-">>)
         IN IF Len(parts) # 2 THEN <<>> ELSE <<parts[1], parts[2]>>

\* build_indices writing the extracted code into the notation field too.
build_indices_A_set_notation(entries) ==
    [i \in DOMAIN entries |->
        IF entries[i].isDict
        THEN [entries[i] EXCEPT !.bfCode = extract_code_A(entries[i]),
                                !.notation = extract_code_A(entries[i])]
        ELSE entries[i]]

\* The entries with e['bfCode'] set on every record.
build_indices_A(entries) ==
    [i \in DOMAIN entries |->
        IF entries[i].isDict
        THEN [entries[i] EXCEPT !.bfCode = extract_code_A(entries[i])]
        ELSE entries[i]]

\* immediate_children_simple accepting a remainder of any depth (the test
\* `'.' not in remainder` left out).
immediate_children_simple_A_any_depth(codes, c) ==
    IF Contains(c, <<"-">>) THEN {}
    ELSE LET prefix == c \o <<".">>
             plen == Len(prefix)
         IN {d \in codes :
               /\ StartsWith(d, prefix)
               /\ ~Contains(d, <<"-">>)
               /\ SliceFrom(d, plen) # <<>>}

\* children[c] of immediate_children_simple(codes).
immediate_children_simple_A(codes, c) ==
    IF Contains(c, <<"-">>) THEN {}
    ELSE LET prefix == c \o <<".">>
             plen == Len(prefix)
         IN {d \in codes :
               /\ StartsWith(d, prefix)
               /\ ~Contains(d, <<"-">>)
               /\ LET remainder == SliceFrom(d, plen)
                  IN remainder # <<>> /\ ~Contains(remainder, <<".">>)}

\* expand_range_children without the comparison of the two prefixes
\* (`if lpref != rpref: return res` left out).
expand_range_children_A_any_prefix(range_code, simple_codes) ==
    LET rng == split_range_A(range_code)
    IN IF rng = <<>> THEN {}
       ELSE LET left == rng[1]
                right == rng[2]
            IN IF ~Contains(left, <<".">>) /\ ~Contains(right, <<".">>)
               THEN IF ~(IntOk(left) /\ IntOk(right)) THEN {}
                    ELSE {sc \in simple_codes :
                            /\ ~Contains(sc, <<"-">>)
                            /\ ~Contains(sc, <<".">>)
                            /\ IntOk(sc)
                            /\ IntVal(left) <= IntVal(sc)
                            /\ IntVal(sc) <= IntVal(right)}
               ELSE IF Contains(left, <<".">>) /\ Contains(right, <<".">>)
               THEN LET l2 == RSplit1(left, <<".">>)
                        r2 == RSplit1(right, <<".">>)
                    IN IF FALSE THEN {}
                       ELSE IF ~(IntOk(l2[2]) /\ IntOk(r2[2])) THEN {}
                       ELSE LET target_prefix == l2[1] \o <<".">>
                            IN {sc \in simple_codes :
                                  /\ StartsWith(sc, target_prefix)
                                  /\ ~Contains(sc, <<"-">>)
                                  /\ LET rest == SliceFrom(sc, Len(target_prefix))
                                     IN /\ rest # <<>>
                                        /\ ~Contains(rest, <<".">>)
                                        /\ IntOk(rest)
                                        /\ IntVal(l2[2]) <= IntVal(rest)
                                        /\ IntVal(rest) <= IntVal(r2[2])}
               ELSE {}

\* expand_range_children with the left tail of a dotted range excluded
\* (li < vi <= ri).
expand_range_children_A_open_tail(range_code, simple_codes) ==
    LET rng == split_range_A(range_code)
    IN IF rng = <<>> THEN {}
       ELSE LET left == rng[1]
                right == rng[2]
            IN IF ~Contains(left, <<".">>) /\ ~Contains(right, <<".">>)
               THEN IF ~(IntOk(left) /\ IntOk(right)) THEN {}
                    ELSE {sc \in simple_codes :
                            /\ ~Contains(sc, <<"-">>)
                            /\ ~Contains(sc, <<".">>)
                            /\ IntOk(sc)
                            /\ IntVal(left) <= IntVal(sc)
                            /\ IntVal(sc) <= IntVal(right)}
               ELSE IF Contains(left, <<".">>) /\ Contains(right, <<".">>)
               THEN LET l2 == RSplit1(left, <<".">>)
                        r2 == RSplit1(right, <<".">>)
                    IN IF l2[1] # r2[1] THEN {}
                       ELSE IF ~(IntOk(l2[2]) /\ IntOk(r2[2])) THEN {}
                       ELSE LET target_prefix == l2[1] \o <<".">>
                            IN {sc \in simple_codes :
                                  /\ StartsWith(sc, target_prefix)
                                  /\ ~Contains(sc, <<"-">>)
                                  /\ LET rest == SliceFrom(sc, Len(target_prefix))
                                     IN /\ rest # <<>>
                                        /\ ~Contains(rest, <<".">>)
                                        /\ IntOk(rest)
                                        /\ IntVal(l2[2]) < IntVal(rest)
                                        /\ IntVal(rest) <= IntVal(r2[2])}
               ELSE {}

\* expand_range_children with the left bound of an integer range excluded
\* (l < v <= r).
expand_range_children_A_open_left(range_code, simple_codes) ==
    LET rng == split_range_A(range_code)
    IN IF rng = <<>> THEN {}
       ELSE LET left == rng[1]
                right == rng[2]
            IN IF ~Contains(left, <<".">>) /\ ~Contains(right, <<".">>)
               THEN IF ~(IntOk(left) /\ IntOk(right)) THEN {}
                    ELSE {sc \in simple_codes :
                            /\ ~Contains(sc, <<"-">>)
                            /\ ~Contains(sc, <<".">>)
                            /\ IntOk(sc)
                            /\ IntVal(left) < IntVal(sc)
                            /\ IntVal(sc) <= IntVal(right)}
               ELSE IF Contains(left, <<".">>) /\ Contains(right, <<".">>)
               THEN LET l2 == RSplit1(left, <<".">>)
                        r2 == RSplit1(right, <<".">>)
                    IN IF l2[1] # r2[1] THEN {}
                       ELSE IF ~(IntOk(l2[2]) /\ IntOk(r2[2])) THEN {}
                       ELSE LET target_prefix == l2[1] \o <<".">>
                            IN {sc \in simple_codes :
                                  /\ StartsWith(sc, target_prefix)
                                  /\ ~Contains(sc, <<"-">>)
                                  /\ LET rest == SliceFrom(sc, Len(target_prefix))
                                     IN /\ rest # <<>>
                                        /\ ~Contains(rest, <<".">>)
                                        /\ IntOk(rest)
                                        /\ IntVal(l2[2]) <= IntVal(rest)
                                        /\ IntVal(rest) <= IntVal(r2[2])}
               ELSE {}

expand_range_children_A(range_code, simple_codes) ==
    LET rng == split_range_A(range_code)
    IN IF rng = <<>> THEN {}
       ELSE LET left == rng[1]
                right == rng[2]
            IN IF ~Contains(left, <<".">>) /\ ~Contains(right, <<".">>)
               THEN IF ~(IntOk(left) /\ IntOk(right)) THEN {}
                    ELSE {sc \in simple_codes :
                            /\ ~Contains(sc, <<"-">>)
                            /\ ~Contains(sc, <<".">>)
                            /\ IntOk(sc)
                            /\ IntVal(left) <= IntVal(sc)
                            /\ IntVal(sc) <= IntVal(right)}
               ELSE IF Contains(left, <<".">>) /\ Contains(right, <<".">>)
               THEN LET l2 == RSplit1(left, <<".">>)
                        r2 == RSplit1(right, <<".">>)
                    IN IF l2[1] # r2[1] THEN {}
                       ELSE IF ~(IntOk(l2[2]) /\ IntOk(r2[2])) THEN {}
                       ELSE LET target_prefix == l2[1] \o <<".">>
                            IN {sc \in simple_codes :
                                  /\ StartsWith(sc, target_prefix)
                                  /\ ~Contains(sc, <<"-">>)
                                  /\ LET rest == SliceFrom(sc, Len(target_prefix))
                                     IN /\ rest # <<>>
                                        /\ ~Contains(rest, <<".">>)
                                        /\ IntOk(rest)
                                        /\ IntVal(l2[2]) <= IntVal(rest)
                                        /\ IntVal(rest) <= IntVal(r2[2])}
               ELSE {}

\* The truncation of a simple code that drops the last segment without
\* looking the candidate up in simple_set.
truncate_segments_A_unchecked(code, simple_set) ==
    LET parts == Split(code, <<".">>)
    IN Join(SubSeq(parts, 1, Len(parts) - 1), <<".">>)

\* The truncation loop of compute_broader for a simple code:
\* for i in range(len(parts)-1, 0, -1), first cand in simple_set.
truncate_segments_A(code, simple_set) ==
    LET parts == Split(code, <<".">>)
        hits == {i \in 1..(Len(parts) - 1) :
                   Join(SubSeq(parts, 1, i), <<".">>) \in simple_set}
    IN IF hits = {} THEN None
       ELSE Join(SubSeq(parts, 1, Max(hits)), <<".">>)

\* compute_broader for a range code (the branch `if '-' in code`).
range_broader_A(code, simple_set) ==
    LET rng == split_range_A(code)
        left == IF rng = <<>> THEN None ELSE rng[1]
        dotted == /\ Contains(code, <<".">>)
                  /\ Truthy(left)
                  /\ Contains(left, <<".">>)
    IN IF dotted /\ RSplit1(left, <<".">>)[1] \in simple_set
       THEN RSplit1(left, <<".">>)[1]
       ELSE IF Truthy(left) /\ left \in simple_set THEN left
       ELSE None

compute_broader_A(code, simple_set) ==
    IF Contains(code, <<"-">>) THEN range_broader_A(code, simple_set)
    ELSE IF ~Contains(code, <<".">>) THEN None
    ELSE truncate_segments_A(code, simple_set)

\* range_parent attaching only ranges with a dotted left bound (the
\* fallback `if left in simple_set` left out).
range_parent_A_dotted_only(code, simple_set) ==
    IF ~Contains(code, <<"-">>) THEN None
    ELSE LET rng == split_range_A(code)
         IN IF rng = <<>> THEN None
            ELSE LET left == rng[1]
                 IN IF Contains(left, <<".">>)
                    THEN (IF SplitFirstHead(left, <<".">>) \in simple_set
                          THEN SplitFirstHead(left, <<".">>) ELSE None)
                    ELSE None

range_parent_A(code, simple_set) ==
    IF ~Contains(code, <<"-">>) THEN None
    ELSE LET rng == split_range_A(code)
         IN IF rng = <<>> THEN None
            ELSE LET left == rng[1]
                 IN IF Contains(left, <<".">>)
                    THEN (IF SplitFirstHead(left, <<".">>) \in simple_set
                          THEN SplitFirstHead(left, <<".">>) ELSE None)
                    ELSE (IF left \in simple_set THEN left ELSE None)

\* child_map with each attached range added to its own entry instead of
\* its parent's (child_map[rc].add(rc)).
child_map_A_self_attach(codes, c) ==
    LET simple_codes == {x \in codes : ~Contains(x, <<"-">>)}
        range_codes == {x \in codes : Contains(x, <<"-">>)}
    IN immediate_children_simple_A(codes, c)
       \cup (IF c \in range_codes
             THEN expand_range_children_A(c, simple_codes) ELSE {})
       \cup {rc \in range_codes :
               LET parent == range_parent_A(rc, simple_codes)
               IN Truthy(parent) /\ rc = c}

\* child_map[c] as process_file builds it.
child_map_A(codes, c) ==
    LET simple_codes == {x \in codes : ~Contains(x, <<"-">>)}
        range_codes == {x \in codes : Contains(x, <<"-">>)}
    IN immediate_children_simple_A(codes, c)
       \cup (IF c \in range_codes
             THEN expand_range_children_A(c, simple_codes) ELSE {})
       \cup {rc \in range_codes :
               LET parent == range_parent_A(rc, simple_codes)
               IN Truthy(parent) /\ parent = c}

\* e['hierarchy'] = {'broader': ..., 'narrower': ...} (a fresh dict).
assign_hierarchy_A(entry, broader, narrower_sorted) ==
    [entry EXCEPT !.hier = [has |-> TRUE, keys |-> {"broader", "narrower"},
                            broader |-> broader, narrower |-> narrower_sorted]]

\* process_file assigning the hierarchy to the first entry of each code only
\* (code_to_entries keeping one entry per code).
process_entries_A_first_only(entries) ==
    LET es == build_indices_A(entries)
        codes == IndexCodes(es)
        simple_codes == {x \in codes : ~Contains(x, <<"-">>)}
    IN [i \in DOMAIN es |->
          IF /\ es[i].isDict /\ Truthy(es[i].bfCode)
             /\ \A j \in 1..(i - 1) : es[j].bfCode # es[i].bfCode
          THEN assign_hierarchy_A(es[i],
                                  compute_broader_A(es[i].bfCode, simple_codes),
                                  Sorted(child_map_A(codes, es[i].bfCode)))
          ELSE es[i]]

\* process_file on a parsed list: the entries as written to the output.
process_entries_A(entries) ==
    LET es == build_indices_A(entries)
        codes == IndexCodes(es)
        simple_codes == {x \in codes : ~Contains(x, <<"-">>)}
    IN [i \in DOMAIN es |->
          IF es[i].isDict /\ Truthy(es[i].bfCode)
          THEN assign_hierarchy_A(es[i],
                                  compute_broader_A(es[i].bfCode, simple_codes),
                                  Sorted(child_map_A(codes, es[i].bfCode)))
          ELSE es[i]]


\* ------------------------------------------------------------ Dialect B
extract_code_B(entry) ==
    IF Truthy(entry.notation) THEN entry.notation
    ELSE LET id_str == IF entry.id = Absent THEN EmptyStr ELSE entry.id
         IN IF StartsWith(id_str, <<"T">>) /\ Contains(id_str, <<":">>)
            THEN SliceFrom(id_str, Min(Occurrences(id_str, <<":">>)))
            ELSE None

\* split_range: <<left, right>>, or <<>> for None.
split_range_B(code) ==
    IF ~Contains(code, <<"-", "-">>) THEN <<>>
    ELSE LET parts == Split(code, <<"-", "-">>)
         IN IF Len(parts) # 2 THEN <<>> ELSE <<parts[1], parts[2]>>

\* The entries with e['bfCode'] set on every record.
build_indices_B(entries) ==
    [i \in DOMAIN entries |->
        IF entries[i].isDict
        THEN [entries[i] EXCEPT !.bfCode = extract_code_B(entries[i])]
        ELSE entries[i]]

\* children[c] of immediate_children_simple(codes).
immediate_children_simple_B(codes, c) ==
    IF Contains(c, <<"-", "-">>) THEN {}
    ELSE {d \in codes :
            /\ ~(d = c \/ Contains(d, <<"-", "-">>))
            /\ StartsWith(d, c)
            /\ Len(d) > Len(c)
            /\ LET remainder == SliceFrom(d, Len(c))
               IN IsDigit(remainder) /\ Len(remainder) <= 3}

expand_range_children_B(range_code, simple_codes) ==
    LET rng == split_range_B(range_code)
    IN IF rng = <<>> THEN {}
       ELSE LET left_num == LStrip(rng[1], "-")
                right_num == LStrip(rng[2], "-")
            IN IF ~(IntOk(left_num) /\ IntOk(right_num)) THEN {}
               ELSE {sc \in simple_codes :
                       /\ ~Contains(sc, <<"-", "-">>)
                       /\ LET sc_num == LStrip(sc, "-")
                          IN /\ IsDigit(sc_num)
                             /\ IntOk(sc_num)
                             /\ IntVal(left_num) <= IntVal(sc_num)
                             /\ IntVal(sc_num) <= IntVal(right_num)}

\* The truncation loop started at len(s): the whole string is a candidate.
truncate_chars_B_from_len(s, simple_set) ==
    LET hits == {i \in 1..Len(s) : SliceTo(s, i) \in simple_set}
    IN IF hits = {} THEN None ELSE SliceTo(s, Max(hits))

\* The truncation loop run from the shortest candidate to the longest.
truncate_chars_B_shortest_first(s, simple_set) ==
    LET hits == {i \in 1..(Len(s) - 1) : SliceTo(s, i) \in simple_set}
    IN IF hits = {} THEN None ELSE SliceTo(s, Min(hits))

\* The truncation loop shared by compute_broader and range_parent:
\* for i in range(len(s) - 1, 0, -1), first s[:i] in simple_set.
truncate_chars_B(s, simple_set) ==
    LET hits == {i \in 1..(Len(s) - 1) : SliceTo(s, i) \in simple_set}
    IN IF hits = {} THEN None ELSE SliceTo(s, Max(hits))

compute_broader_B(code, simple_set) ==
    IF Contains(code, <<"-", "-">>)
    THEN LET rng == split_range_B(code)
             left == IF rng = <<>> THEN None ELSE rng[1]
         IN IF Truthy(left) THEN truncate_chars_B(left, simple_set) ELSE None
    ELSE IF Len(code) <= 1 THEN None
    ELSE truncate_chars_B(code, simple_set)

range_parent_B(code, simple_set) ==
    IF ~Contains(code, <<"-", "-">>) THEN None
    ELSE LET rng == split_range_B(code)
         IN IF rng = <<>> THEN None
            ELSE truncate_chars_B(rng[1], simple_set)

\* child_map[c] as process_file builds it.
child_map_B(codes, c) ==
    LET simple_codes == {x \in codes : ~Contains(x, <<"-", "-">>)}
        range_codes == {x \in codes : Contains(x, <<"-", "-">>)}
    IN immediate_children_simple_B(codes, c)
       \cup (IF c \in range_codes
             THEN expand_range_children_B(c, simple_codes) ELSE {})
       \cup {rc \in range_codes :
               LET parent == range_parent_B(rc, simple_codes)
               IN Truthy(parent) /\ parent = c}

\* The narrower list of an existing hierarchy field extended, not replaced.
assign_hierarchy_B_extend(entry, broader, narrower) ==
    [entry EXCEPT !.hier = [has |-> TRUE,
                            keys |-> @.keys \cup {"narrower", "broader"},
                            broader |-> broader,
                            narrower |-> @.narrower \o narrower]]

\* entry['hierarchy'] is created when missing, then its two keys are set.
assign_hierarchy_B(entry, broader, narrower) ==
    [entry EXCEPT !.hier = [has |-> TRUE,
                            keys |-> @.keys \cup {"narrower", "broader"},
                            broader |-> broader, narrower |-> narrower]]

\* process_file on a parsed list: the entries as written to the output.
process_entries_B(entries) ==
    LET es == build_indices_B(entries)
        codes == IndexCodes(es)
        simple_codes == {x \in codes : ~Contains(x, <<"-", "-">>)}
    IN [i \in DOMAIN es |->
          IF es[i].isDict /\ Truthy(es[i].bfCode)
          THEN assign_hierarchy_B(es[i],
                                  compute_broader_B(es[i].bfCode, simple_codes),
                                  Sorted(child_map_B(codes, es[i].bfCode)))
          ELSE es[i]]

\* ------------------------------------------------------------ both dialects
RangeSep(d) == IF d = "A" THEN <<"-">> ELSE <<"-", "-">>

\* process_file with an index that is not rebuilt for each file: the codes
\* of the previous file's output are still in it.
process_entries_with_carry(d, entries) ==
    LET all == out.entries \o entries
        res == IF d = "A" THEN process_entries_A(all) ELSE process_entries_B(all)
    IN SubSeq(res, Len(out.entries) + 1, Len(all))

process_entries(d, entries) ==
    IF d = "A" THEN process_entries_A(entries) ELSE process_entries_B(entries)

\* The REPORT lines process_file appends for a list of entries.
report_lines(d, file, entries) ==
    LET res == process_entries(d, entries)
        codes == IndexCodes(res)
        ranges == {c \in codes : Contains(c, RangeSep(d))}
        updated == Cardinality({i \in DOMAIN res :
                                  res[i].isDict /\ Truthy(res[i].bfCode)})
    IN IF d = "A"
       THEN <<[file |-> file, kind |-> "summary", entries |-> Len(entries),
               codes |-> Cardinality(codes), ranges |-> Cardinality(ranges)]>>
       ELSE <<[file |-> file, kind |-> "counts", entries |-> Len(entries),
               codes |-> Cardinality(codes \ ranges),
               ranges |-> Cardinality(ranges)],
              [file |-> file, kind |-> "updated", entries |-> updated,
               codes |-> 0, ranges |-> 0],
              [file |-> file, kind |-> "wrote", entries |-> 0,
               codes |-> 0, ranges |-> 0]>>

\* A rejected file that leaves no line in REPORT (the REPORT.append before
\* the early return left out).
error_line_silent(file, kind) == <<>>

\* The REPORT line of a file that is not JSON, or whose root is not a list.
error_line(file, kind) ==
    <<[file |-> file, kind |-> kind, entries |-> 0, codes |-> 0, ranges |-> 0]>>


\* ------------------------------------------------------------ inputs
\* Codes of Sch*.cleaned.json entries (Dialect A).
CodePoolA ==
    { <<"0", "0", "4">>,   \* 004
      <<"5">>,   \* 5
      <<"0", "0", "7">>,   \* 007
      <<"0", "0", "4", "-", "0", "0", "6">>,   \* 004-006
      <<"6", "0", "0">>,   \* 600
      <<"6", "0", "0", ".", "1">>,   \* 600.1
      <<"6", "0", "0", ".", "1", ".", "2">>,   \* 600.1.2
      <<"6", "0", "0", ".", "1", "-", "6", "0", "0", ".", "3">>,   \* 600.1-600.3
      <<"6", "0", "0", ".", "1", ".", "2", "-", "6", "0", "0", ".", "1", ".", "5">>,   \* 600.1.2-600.1.5
      <<"0", "0", "a", "-", "0", "0", "6">> }   \* 00a-006

\* Notations of Table*.cleaned.json entries (Dialect B).
CodePoolB ==
    { <<"-">>,   \* -
      <<"-", "0">>,   \* -0
      <<"-", "0", "9">>,   \* -09
      <<"-", "0", "9", "2">>,   \* -092
      <<"-", "0", "0", "1">>,   \* -001
      <<"-", "2">>,   \* -2
      <<"-", "0", "0", "1", "-", "-", "0", "0", "3">>,   \* -001--003
      <<"-", "0", "a">> }   \* -0a

\* A record of the input list with the given id and notation fields.
Rec(id, notation) ==
    [isDict |-> TRUE, id |-> id, notation |-> notation, title |-> "t",
     bfCode |-> Absent, hier |-> NoHier]

VolumeId(code) == <<"V", "o", "l", "u", "m", "e", "1", "-">> \o code
TableId(code) == <<"T", "1", ":">> \o code

\* The records a file of the dialect may hold: one per code of the pool,
\* one that reaches its code through the fallback field, and one from
\* which no code can be extracted.
EntryPool(d) ==
    IF d = "A"
    THEN {Rec(VolumeId(c), Absent) : c \in CodePoolA}
         \cup {Rec(Absent, <<"0", "0", "4">>), Rec(Absent, Absent)}
    ELSE {Rec(Absent, c) : c \in CodePoolB}
         \cup {Rec(TableId(<<"-", "0", "9">>), Absent), Rec(Absent, Absent)}

\* Dialect A codes with malformed, reversed and nested range forms.
EdgeCodesA ==
    { <<"0", "0", "4">>,   \* 004
      <<"5">>,   \* 5
      <<"0", "0", "7">>,   \* 007
      <<"0", "0", "4", "-", "0", "0", "6">>,   \* 004-006
      <<"0", "0", "7", "-", "0", "0", "4">>,   \* 007-004
      <<"0", "0", "a", "-", "0", "0", "6">>,   \* 00a-006
      <<"6", "0", "0">>,   \* 600
      <<"6", "0", "0", ".", "1">>,   \* 600.1
      <<"6", "0", "0", ".", "1", ".", "2">>,   \* 600.1.2
      <<"6", "0", "0", ".", "4">>,   \* 600.4
      <<"6", "0", "0", ".", "1", "-", "6", "0", "0", ".", "3">>,   \* 600.1-600.3
      <<"6", "0", "0", ".", "1", "-", "6", "0", "1", ".", "3">>,   \* 600.1-601.3
      <<"6", "0", "0", ".", "1", "-", "3">>,   \* 600.1-3
      <<"1", "-", "2", "-", "3">> }   \* 1-2-3

\* Dialect B notations with malformed and nested range forms.
EdgeCodesB ==
    { <<"-">>,   \* -
      <<"-", "0">>,   \* -0
      <<"-", "0", "9">>,   \* -09
      <<"-", "0", "9", "2">>,   \* -092
      <<"-", "0", "9", "2", "1">>,   \* -0921
      <<"-", "0", "0", "1">>,   \* -001
      <<"-", "2">>,   \* -2
      <<"-", "0", "0", "1", "-", "-", "0", "0", "3">>,   \* -001--003
      <<"-", "0", "0", "1", "-", "-", "0", "0", "3", "1">>,   \* -001--0031
      <<"-", "0", "a", "-", "-", "0", "0", "3">>,   \* -0a--003
      <<"-", "1", "-", "-", "2", "-", "-", "3">> }   \* -1--2--3

\* A record that already carries a hierarchy field with another sub-field.
RecWithHierarchy(id, notation) ==
    [Rec(id, notation) EXCEPT
        !.hier = [has |-> TRUE, keys |-> {"related"},
                  broader |-> None, narrower |-> <<>>]]

\* An item of the list that is not a record (a JSON string).
NonRecord ==
    [isDict |-> FALSE, id |-> Absent, notation |-> Absent, title |-> "item",
     bfCode |-> Absent, hier |-> NoHier]

\* The items of a file with irregular codes.
EdgePool(d) ==
    IF d = "A"
    THEN {Rec(VolumeId(c), Absent) : c \in EdgeCodesA}
         \cup {RecWithHierarchy(VolumeId(<<"6", "0", "0">>), Absent), NonRecord}
    ELSE {Rec(Absent, c) : c \in EdgeCodesB}
         \cup {RecWithHierarchy(Absent, <<"-", "0", "9">>), NonRecord}

\* A JSON number as the value of a field.
Num == <<"number">>

\* Records whose id or notation is a number, not a string.
BadRecords == {Rec(Num, Absent), Rec(Absent, Num)}

\* process_file raises on the list: Dialect A, ID_CODE_RE.match of a number
\* (TypeError), or a number as code in `'-' not in c`; Dialect B, a number
\* as code in `'--' not in c`, or id_str.startswith on a number.
raises(d, entries) ==
    \E i \in DOMAIN entries :
        /\ entries[i].isDict
        /\ IF d = "A"
           THEN \/ entries[i].id = Num
                \/ /\ ID_CODE_RE(IF Truthy(entries[i].id)
                                 THEN entries[i].id ELSE EmptyStr) = <<>>
                   /\ entries[i].notation = Num
           ELSE \/ entries[i].notation = Num
                \/ ~Truthy(entries[i].notation) /\ entries[i].id = Num

\* ------------------------------------------------------------ state machine
\* dialect     which script runs: "A" (Sch files) or "B" (Table files)
\* idx         files of the glob that main has passed to process_file
\* used        input consumed so far (see MaxEntries)
\* src         the content of the file read by the latest process_file call
\* out         the output file written by the latest process_file call
\* rerun       the latest call read the output of the call before it
\* REPORT      the module-level REPORT list
\* reportFile  the report file main writes after its loop
\* aborted     an exception has left process_file and main
NoOutput == [exists |-> FALSE, entries |-> <<>>]
NoSource == [kind |-> "none", entries |-> <<>>]

\* The extraction driver has not been started.
DriverAtRest ==
    /\ args = [force |-> FALSE, pages_per_call |-> 1]
    /\ doc = <<>>
    /\ checkpoints = <<>>
    /\ manifest = <<>>
    /\ processed_pages = <<>>
    /\ merged = <<>>
    /\ page_i = 0
    /\ attempt = 0
    /\ pc = "idle"
    /\ final = [exists |-> FALSE, objs |-> <<>>]
    /\ runs = 0
    /\ preloaded = {}
    /\ sent = {}
    /\ rewritten = {}
    /\ failed = {}

Init ==
    /\ dialect \in {"A", "B"}
    /\ idx = 0
    /\ used = 0
    /\ src = NoSource
    /\ out = NoOutput
    /\ rerun = FALSE
    /\ REPORT = <<>>
    /\ reportFile = [exists |-> FALSE, lines |-> <<>>]
    /\ aborted = FALSE
    /\ DriverAtRest

\* main is still in its loop over the files.
InLoop == ~reportFile.exists /\ ~aborted

\* process_file(p) for the next file of the glob, holding a list of records
\* drawn from pool.
ProcessFrom(pool) ==
    /\ InLoop
    /\ used < MaxEntries
    /\ \E n \in 0..(MaxEntries - used) :
         \E entries \in [1..n -> pool] :
            /\ ~raises(dialect, entries)
            /\ src' = [kind |-> "list", entries |-> entries]
            /\ out' = [exists |-> TRUE,
                       entries |-> process_entries(dialect, entries)]
            /\ REPORT' = REPORT \o report_lines(dialect, idx + 1, entries)
            /\ used' = used + (IF n = 0 THEN 1 ELSE n)
    /\ idx' = idx + 1
    /\ rerun' = FALSE
    /\ UNCHANGED <<dialect, reportFile, aborted>>
    /\ UNCHANGED driverVars

ProcessFile == ProcessFrom(EntryPool(dialect))

\* process_file(p) for a file that is not JSON, or whose root is not a list:
\* one REPORT line and no output file.
ProcessBadFile ==
    /\ InLoop
    /\ used < MaxEntries
    /\ \E kind \in {"parse error", "root not list"} :
         /\ src' = [kind |-> kind, entries |-> <<>>]
         /\ REPORT' = REPORT \o error_line(idx + 1, kind)
    /\ out' = NoOutput
    /\ used' = used + 1
    /\ idx' = idx + 1
    /\ rerun' = FALSE
    /\ UNCHANGED <<dialect, reportFile, aborted>>
    /\ UNCHANGED driverVars

\* process_file(p) raising after the read: on a record whose id or notation
\* is a number, or in out_path.write_text.  Nothing catches the exception,
\* so main ends there; Dialect B has appended two REPORT lines before the
\* write.
ProcessFileRaises ==
    /\ InLoop
    /\ used < MaxEntries
    /\ \/ /\ \E r \in BadRecords : raises(dialect, <<r>>)
          /\ REPORT' = REPORT
       \/ \E r \in EntryPool(dialect) :
             REPORT' = IF dialect = "A" THEN REPORT
                       ELSE REPORT \o SubSeq(report_lines("B", idx + 1, <<r>>),
                                             1, 2)
    /\ src' = NoSource
    /\ out' = NoOutput
    /\ used' = used + 1
    /\ idx' = idx + 1
    /\ rerun' = FALSE
    /\ aborted' = TRUE
    /\ UNCHANGED <<dialect, reportFile>>
    /\ UNCHANGED driverVars

\* process_file applied to the output it has just written (the output
\* given back as input).
ReprocessOutput ==
    /\ InLoop
    /\ out.exists
    /\ ~rerun
    /\ src' = [kind |-> "list", entries |-> out.entries]
    /\ out' = [out EXCEPT !.entries = process_entries(dialect, @)]
    /\ REPORT' = REPORT \o report_lines(dialect, idx, out.entries)
    /\ rerun' = TRUE
    /\ UNCHANGED <<dialect, idx, used, reportFile, aborted>>
    /\ UNCHANGED driverVars

\* main() after its loop: the report is written (Dialect B returns before
\* that when the glob matched no file).
WriteReport ==
    /\ InLoop
    /\ dialect = "B" => idx > 0
    /\ reportFile' = [exists |-> TRUE, lines |-> REPORT]
    /\ UNCHANGED <<dialect, idx, used, src, out, rerun, REPORT, aborted>>
    /\ UNCHANGED driverVars

Next ==
    \/ ProcessFile
    \/ ProcessBadFile
    \/ ProcessFileRaises
    \/ ReprocessOutput
    \/ WriteReport

Spec == Init /\ [][Next]_vars

\* process_file over files with irregular codes.
ProcessEdgeFile == ProcessFrom(EdgePool(dialect))

NextEdge == ProcessEdgeFile

SpecEdge == Init /\ [][NextEdge]_vars

\* ------------------------------------------------------------ extraction driver
\* src/gemini.py, main: page images are sent to the model one or two per
\* call, each page's objects are saved as a checkpoint file, and the final
\* file is written from the list `merged`.
\*
\* args             args.force and args.pages_per_call of the current run
\* doc              what the model reads on each page: "plain", or "cont"
\*                  when the page begins with a continuation sentinel
\* checkpoints      the per-page checkpoint files in --jsons_dir
\* manifest         processed_pages as saved in the manifest file
\* processed_pages  main's list processed_pages
\* merged           main's list merged
\* page_i           main's loop index i (0-based)
\* attempt          main's attempt counter for the current page or pair
\* pc               where main stands: "idle", "loop", "attempt", "done"
\* final            the file at --final_path
\* runs             invocations of main so far
\* preloaded        pages whose checkpoint was loaded when the run began
\* sent             pages sent to the model during the run
\* rewritten        pages whose checkpoint file was written during the run
\* failed           pages of the run given up after max_attempts attempts

\* Pages selected by --pages (1..NPages).
NPages == 3
\* args.max_attempts
max_attempts == 2
\* Invocations of main on the same --jsons_dir.
MaxRuns == 2

\* parse_pages_arg: the sorted list of selected pages.
pages == [k \in 1..NPages |-> k]

CONT_SENTINEL_ID == "__CONT__"
PAGE_SENTINEL_ID == "__PAGE__"

\* A concept object of page pg; fileName is the page whose image it names
\* (0: another file name), notes is scope.notes.
Concept(pg, fileOk) ==
    [id |-> "concept", page |-> pg, fileName |-> IF fileOk THEN pg ELSE 0,
     notes |-> <<>>]

\* The continuation sentinel of page pg; its one note is named by the page.
ContSentinel(pg) ==
    [id |-> CONT_SENTINEL_ID, page |-> pg, fileName |-> pg, notes |-> <<pg>>]

\* The objects the model returns for page pg.
PageContent(pg, fileOk) ==
    (IF doc[pg] = "cont" THEN <<ContSentinel(pg)>> ELSE <<>>)
        \o <<Concept(pg, fileOk)>>

\* apply_continuation_if_any(page_objs, merged): the returned page objects
\* and the list merged after the in-place update of its last real concept.
apply_continuation_if_any(page_objs, mg) ==
    IF page_objs = <<>> THEN [page_objs |-> page_objs, merged |-> mg]
    ELSE IF page_objs[1].id # CONT_SENTINEL_ID
    THEN [page_objs |-> page_objs, merged |-> mg]
    ELSE LET cont_notes == page_objs[1].notes
             real == {k \in DOMAIN mg :
                        mg[k].id \notin {CONT_SENTINEL_ID, PAGE_SENTINEL_ID}}
         IN [page_objs |-> Tail(page_objs),
             merged |-> IF cont_notes = <<>> \/ real = {} THEN mg
                        ELSE [mg EXCEPT ![Max(real)].notes = @ \o cont_notes]]

\* split_objects_by_page(objs).get(pg, [])
split_objects_by_page(objs, pg) == SelectSeq(objs, LAMBDA o : o.page = pg)

\* validate_page_objects(objs, page_number, img_name)[0]
validate_page_objects(objs, pg) ==
    \A k \in DOMAIN objs : objs[k].page = pg /\ objs[k].fileName = pg

\* checkpoint_valid(pg, img_path): try_load_existing_page gives a non-empty
\* list that existing_is_valid_for_page accepts.
checkpoint_valid(pg) ==
    /\ checkpoints[pg].exists
    /\ checkpoints[pg].objs # <<>>
    /\ validate_page_objects(checkpoints[pg].objs, pg)

\* dual = (args.pages_per_call == 2 and i + 1 < len(pages))
dual == args.pages_per_call = 2 /\ page_i + 1 < Len(pages)

\* batch: the page, or the two pages, of the current call.
batch ==
    IF dual THEN <<pages[page_i + 1], pages[page_i + 2]>>
    ELSE <<pages[page_i + 1]>>

\* The replies of the model to a call for the batch that parse as JSON:
\* every page's objects, with a right or a wrong source.fileName.
Replies ==
    IF Len(batch) = 2
    THEN {PageContent(batch[1], a) \o PageContent(batch[2], b) :
            a \in BOOLEAN, b \in BOOLEAN}
    ELSE {PageContent(batch[1], a) : a \in BOOLEAN}

\* One pass of the body of `for img_path, pg in batch` over st, the lists
\* and files as the passes before it left them; raised: a ValueError of the
\* per-page validation has ended the attempt.
handle_page(st, pg, objs) ==
    IF st.raised THEN st
    ELSE LET ac == apply_continuation_if_any(split_objects_by_page(objs, pg),
                                             st.merged)
         IN IF ~validate_page_objects(ac.page_objs, pg) /\ ac.page_objs # <<>>
            THEN [st EXCEPT !.merged = ac.merged, !.raised = TRUE]
            ELSE [st EXCEPT
                    !.checkpoints[pg] = [exists |-> TRUE, objs |-> ac.page_objs],
                    !.processed_pages = IF pg \in SetOf(@) THEN @
                                        ELSE Append(@, pg),
                    !.merged = ac.merged \o ac.page_objs,
                    !.rewritten = @ \cup {pg}]

\* The try block of one attempt after the reply objs has been parsed.
run_batch(objs) ==
    LET s0 == [merged |-> merged, checkpoints |-> checkpoints,
               processed_pages |-> processed_pages, rewritten |-> rewritten,
               raised |-> FALSE]
        s1 == handle_page(s0, batch[1], objs)
    IN IF Len(batch) = 2 THEN handle_page(s1, batch[2], objs) ELSE s1

\* The selected pages with a valid checkpoint, in page order.
RECURSIVE valid_pages_upto(_)
valid_pages_upto(k) ==
    IF k = 0 THEN <<>>
    ELSE valid_pages_upto(k - 1)
            \o (IF checkpoint_valid(pages[k]) THEN <<pages[k]>> ELSE <<>>)

\* merged after the preload loop: the objects of the valid checkpoints.
RECURSIVE preload_merged(_)
preload_merged(pgs) ==
    IF pgs = <<>> THEN <<>>
    ELSE checkpoints[Head(pgs)].objs \o preload_merged(Tail(pgs))

\* processed_pages after the preload loop.
RECURSIVE preload_processed(_, _)
preload_processed(done, pgs) ==
    IF pgs = <<>> THEN done
    ELSE preload_processed(IF Head(pgs) \in SetOf(done) THEN done
                           ELSE Append(done, Head(pgs)),
                           Tail(pgs))

InitDriver ==
    /\ dialect = "A"
    /\ idx = 0
    /\ used = 0
    /\ src = NoSource
    /\ out = NoOutput
    /\ rerun = FALSE
    /\ REPORT = <<>>
    /\ reportFile = [exists |-> FALSE, lines |-> <<>>]
    /\ aborted = FALSE
    /\ args = [force |-> FALSE, pages_per_call |-> 1]
    /\ doc \in [1..NPages -> {"plain", "cont"}]
    /\ checkpoints = [k \in 1..NPages |-> [exists |-> FALSE, objs |-> <<>>]]
    /\ manifest = <<>>
    /\ processed_pages = <<>>
    /\ merged = <<>>
    /\ page_i = 0
    /\ attempt = 0
    /\ pc = "idle"
    /\ final = [exists |-> FALSE, objs |-> <<>>]
    /\ runs = 0
    /\ preloaded = {}
    /\ sent = {}
    /\ rewritten = {}
    /\ failed = {}

\* main up to its loop: the arguments are read, the manifest is loaded and
\* the valid checkpoints of the selected pages are preloaded into merged.
StartRun ==
    /\ pc \in {"idle", "done"}
    /\ runs < MaxRuns
    /\ \E f \in BOOLEAN : \E ppc \in {1, 2} :
          args' = [force |-> f, pages_per_call |-> ppc]
    /\ merged' = preload_merged(valid_pages_upto(Len(pages)))
    /\ processed_pages' = preload_processed(manifest, valid_pages_upto(Len(pages)))
    /\ preloaded' = SetOf(valid_pages_upto(Len(pages)))
    /\ page_i' = 0
    /\ attempt' = 0
    /\ pc' = "loop"
    /\ runs' = runs + 1
    /\ sent' = {}
    /\ rewritten' = {}
    /\ failed' = {}
    /\ UNCHANGED <<doc, checkpoints, manifest, final>>
    /\ UNCHANGED hierVars

\* The skip test of the loop: without --force, the page (or both pages of
\* the pair) has a valid checkpoint.
skip_batch ==
    /\ ~args.force
    /\ \A k \in DOMAIN batch : checkpoint_valid(batch[k])

\* `i += 2` or `i += 1; continue` of the skip branch.
SkipPages ==
    /\ pc = "loop"
    /\ page_i < Len(pages)
    /\ skip_batch
    /\ page_i' = page_i + Len(batch)
    /\ UNCHANGED <<args, doc, checkpoints, manifest, processed_pages, merged,
                   attempt, pc, final, runs, preloaded, sent, rewritten, failed>>
    /\ UNCHANGED hierVars

\* attempt = 0; success = False: the retry loop of the page or pair begins.
BeginPages ==
    /\ pc = "loop"
    /\ page_i < Len(pages)
    /\ ~skip_batch
    /\ attempt' = 0
    /\ pc' = "attempt"
    /\ UNCHANGED <<args, doc, checkpoints, manifest, processed_pages, merged,
                   page_i, final, runs, preloaded, sent, rewritten, failed>>
    /\ UNCHANGED hierVars

\* An attempt in which the call raises, or the reply is empty or does not
\* parse: the except branch, before anything was handled.
AttemptRaises ==
    /\ pc = "attempt"
    /\ attempt < max_attempts
    /\ attempt' = attempt + 1
    /\ sent' = sent \cup SetOf(batch)
    /\ UNCHANGED <<args, doc, checkpoints, manifest, processed_pages, merged,
                   page_i, pc, final, runs, preloaded, rewritten, failed>>
    /\ UNCHANGED hierVars

\* An attempt in which the per-page validation of one page raises.
AttemptFailsValidation ==
    /\ pc = "attempt"
    /\ attempt < max_attempts
    /\ \E objs \in Replies :
          /\ run_batch(objs).raised
          /\ merged' = run_batch(objs).merged
          /\ checkpoints' = run_batch(objs).checkpoints
          /\ processed_pages' = run_batch(objs).processed_pages
          /\ rewritten' = run_batch(objs).rewritten
    /\ attempt' = attempt + 1
    /\ sent' = sent \cup SetOf(batch)
    /\ UNCHANGED <<args, doc, manifest, page_i, pc, final, runs, preloaded,
                   failed>>
    /\ UNCHANGED hierVars

\* An attempt that succeeds: checkpoints written, manifest saved, and the
\* loop index advanced.
AttemptSucceeds ==
    /\ pc = "attempt"
    /\ attempt < max_attempts
    /\ \E objs \in Replies :
          /\ ~run_batch(objs).raised
          /\ merged' = run_batch(objs).merged
          /\ checkpoints' = run_batch(objs).checkpoints
          /\ processed_pages' = run_batch(objs).processed_pages
          /\ manifest' = run_batch(objs).processed_pages
          /\ rewritten' = run_batch(objs).rewritten
    /\ attempt' = attempt + 1
    /\ sent' = sent \cup SetOf(batch)
    /\ page_i' = page_i + Len(batch)
    /\ pc' = "loop"
    /\ UNCHANGED <<args, doc, final, runs, preloaded, failed>>
    /\ UNCHANGED hierVars

\* The retry loop ends without success: "FAILED ... Leaving for resume".
GiveUp ==
    /\ pc = "attempt"
    /\ attempt >= max_attempts
    /\ failed' = failed \cup SetOf(batch)
    /\ page_i' = page_i + Len(batch)
    /\ pc' = "loop"
    /\ UNCHANGED <<args, doc, checkpoints, manifest, processed_pages, merged,
                   attempt, final, runs, preloaded, sent, rewritten>>
    /\ UNCHANGED hierVars

\* write_atomic_json(args.final_path, merged) after the loop.
FinalWrite ==
    /\ pc = "loop"
    /\ page_i >= Len(pages)
    /\ final' = [exists |-> TRUE, objs |-> merged]
    /\ pc' = "done"
    /\ UNCHANGED <<args, doc, checkpoints, manifest, processed_pages, merged,
                   page_i, attempt, runs, preloaded, sent, rewritten, failed>>
    /\ UNCHANGED hierVars

NextDriver ==
    \/ StartRun
    \/ SkipPages
    \/ BeginPages
    \/ AttemptRaises
    \/ AttemptFailsValidation
    \/ AttemptSucceeds
    \/ GiveUp
    \/ FinalWrite

SpecDriver == InitDriver /\ [][NextDriver]_vars

\* main runs on: no step of it is put off for ever.
SpecDriverFair == SpecDriver /\ WF_vars(NextDriver)

\* ------------------------------------------------------------ reading the output
\* The records of the latest output that carry a hierarchy field.
Annotated ==
    {i \in DOMAIN out.entries : out.entries[i].isDict /\ out.entries[i].hier.has}

CodeAt(i) == out.entries[i].bfCode
BroaderAt(i) == out.entries[i].hier.broader
NarrowerAt(i) == SetOf(out.entries[i].hier.narrower)

IsRangeCode(c) == Contains(c, RangeSep(dialect))
RangesOut == {i \in Annotated : IsRangeCode(CodeAt(i))}
PointsOut == {i \in Annotated : ~IsRangeCode(CodeAt(i))}
PointCodes == {CodeAt(i) : i \in PointsOut}

\* p is c with at least one trailing segment (A) or character (B) removed.
ProperTruncation(p, c) ==
    IF dialect = "A"
    THEN StartsWith(c, p \o <<".">>)
    ELSE StartsWith(c, p) /\ Len(p) >= 1 /\ Len(p) < Len(c)

\* The text before the first range separator of a range code.
LeftBound(r) == SplitFirstHead(r, RangeSep(dialect))
\* The text after the first range separator of a range code.
RightBound(r) ==
    SliceFrom(r, Min(Occurrences(r, RangeSep(dialect)))
                 + Len(RangeSep(dialect)) - 1)
\* The range code has exactly two bounds.
TwoBounds(r) == ~Contains(RightBound(r), RangeSep(dialect))

\* ------------------------------------------------------------ claims
\* C1: in either dialect a Range code r is listed in narrower(p) of a Point
\* code p if and only if broader(r) = p, and broader(r) is null when r is
\* listed under no Point code.
C1_AttachmentAgreesWithBroader ==
    /\ \A i \in RangesOut : \A j \in PointsOut :
          (CodeAt(i) \in NarrowerAt(j)) <=> (BroaderAt(i) = CodeAt(j))
    /\ \A i \in RangesOut :
          (\A j \in PointsOut : CodeAt(i) \notin NarrowerAt(j))
             => BroaderAt(i) = None

\* C2: no code of a processed file occurs in its own narrower list.
C2_NoSelfChild ==
    \A i \in Annotated : CodeAt(i) \notin NarrowerAt(i)

\* A file in which a range covers its own container: 004-006 lists 004 and
\* is listed under 004.
C2_Witness ==
    /\ dialect = "A"
    /\ \E i \in RangesOut : \E j \in PointsOut :
          /\ CodeAt(j) \in NarrowerAt(i)
          /\ CodeAt(i) \in NarrowerAt(j)

\* C3: a non-null broader is a code of the same file's index and a Point
\* code; no Range code is the broader of any code.
C3_BroaderIsIndexedPoint ==
    \A i \in Annotated :
        BroaderAt(i) # None =>
            /\ BroaderAt(i) \in PointCodes
            /\ ~IsRangeCode(BroaderAt(i))

\* A file in which a Point code and a Range code both have a broader.
C3_Witness ==
    /\ \E i \in RangesOut : BroaderAt(i) # None
    /\ \E i \in PointsOut : BroaderAt(i) # None

\* C4: the non-null parent of a Point code is a proper truncation of it,
\* strictly shorter than the code and different from it.
C4_ParentIsProperTruncation ==
    \A i \in PointsOut :
        BroaderAt(i) # None =>
            /\ ProperTruncation(BroaderAt(i), CodeAt(i))
            /\ Len(BroaderAt(i)) < Len(CodeAt(i))
            /\ BroaderAt(i) # CodeAt(i)

\* A Dialect B Point code whose parent is two characters shorter.
C4_Witness ==
    /\ dialect = "B"
    /\ \E i \in PointsOut :
          BroaderAt(i) # None /\ Len(CodeAt(i)) = Len(BroaderAt(i)) + 2

\* C5: process_file applied to its own output leaves on every entry the
\* same extracted code, broader and narrower.
C5_Idempotent ==
    [][(~rerun /\ rerun') =>
          /\ Len(out'.entries) = Len(out.entries)
          /\ \A i \in DOMAIN out.entries :
                /\ out'.entries[i].bfCode = out.entries[i].bfCode
                /\ out'.entries[i].hier.has = out.entries[i].hier.has
                /\ out'.entries[i].hier.broader = out.entries[i].hier.broader
                /\ out'.entries[i].hier.narrower = out.entries[i].hier.narrower
      ]_vars

\* A second pass over an output that holds a code with a parent and a code
\* with children.
C5_Witness ==
    /\ rerun
    /\ \E i \in Annotated : BroaderAt(i) # None
    /\ \E i \in Annotated : NarrowerAt(i) # {}

\* C6: a Point code d listed in narrower(c) of a Point code c has
\* broader(d) = c, so d is listed under at most one Point code.
C6_NarrowerAreImmediate ==
    \A i \in PointsOut : \A j \in PointsOut :
        CodeAt(j) \in NarrowerAt(i) => BroaderAt(j) = CodeAt(i)

\* The Point codes of the index that are proper truncations of s.
Truncations(s) == {p \in PointCodes : ProperTruncation(p, s)}

\* b is the longest of them, or null when there is none.
LongestTruncation(b, s) ==
    IF Truncations(s) = {} THEN b = None
    ELSE b \in Truncations(s) /\ \A t \in Truncations(s) : Len(t) <= Len(b)

\* C7: every truncation search (Dialect A Point codes by segments, Dialect B
\* Point codes and Range left bounds by characters) returns the longest
\* proper truncation that exists as a Point code, and null only when none
\* exists.
C7_LongestTruncationWins ==
    /\ \A i \in PointsOut : LongestTruncation(BroaderAt(i), CodeAt(i))
    /\ dialect = "B" =>
         \A i \in RangesOut :
             TwoBounds(CodeAt(i)) =>
                 LongestTruncation(BroaderAt(i), LeftBound(CodeAt(i)))

\* A Point code with two truncations in the index, resolved to the longer.
C7_Witness ==
    \E i \in PointsOut :
        /\ Cardinality(Truncations(CodeAt(i))) >= 2
        /\ BroaderAt(i) # None

\* C8: in Dialect B a resolved parent is null or at least 2 characters long.
C8_ParentHasMarkerAndDigit ==
    dialect = "B" =>
        \A i \in Annotated : BroaderAt(i) = None \/ Len(BroaderAt(i)) >= 2

\* C9: in Dialect A, broader of a Range code with a dotted left bound is the
\* left bound less its last segment if that is a Point code and null
\* otherwise; with an undotted left bound it is the left bound if that is a
\* Point code and null otherwise.
C9_RangeBroaderA ==
    dialect = "A" =>
        \A i \in RangesOut :
            TwoBounds(CodeAt(i)) =>
                LET left == LeftBound(CodeAt(i))
                    want == IF Contains(left, <<".">>)
                            THEN RSplit1(left, <<".">>)[1]
                            ELSE left
                IN BroaderAt(i) = IF want \in PointCodes THEN want ELSE None

\* A code or bound with the dialect's marker characters stripped.
Unmarked(s) == IF dialect = "A" THEN s ELSE LStrip(s, "-")

\* The Point code p has an integer value.
HasIntegerValue(p) ==
    IsDigit(Unmarked(p)) /\ (dialect = "A" => ~Contains(p, <<".">>))

\* The Range code r has two bounds without internal structure that parse.
IntegerForm(r) ==
    /\ TwoBounds(r)
    /\ IsDigit(Unmarked(LeftBound(r)))
    /\ IsDigit(Unmarked(RightBound(r)))

StructuredRange(r) ==
    /\ TwoBounds(r)
    /\ Contains(LeftBound(r), <<".">>)
    /\ Contains(RightBound(r), <<".">>)
    /\ RSplit1(LeftBound(r), <<".">>)[1] = RSplit1(RightBound(r), <<".">>)[1]

\* The Point codes P.x of the output with x a single segment of digits whose
\* value lies between the values of the two tails lt and rt.
PointsUnderPrefix(P, lt, rt) ==
    {p \in PointCodes :
        /\ StartsWith(p, P \o <<".">>)
        /\ LET x == SliceFrom(p, Len(P) + 1)
           IN /\ IsDigit(x) /\ IsDigit(lt) /\ IsDigit(rt)
              /\ DigitsValue(lt) <= DigitsValue(x)
              /\ DigitsValue(x) <= DigitsValue(rt)}

\* C11: in Dialect A the narrower of a structured Range code whose dotted
\* bounds share the prefix P is exactly the set of indexed Point codes P.x
\* with x one segment parsing to an integer within [leftTail, rightTail];
\* deeper codes P.x.y and codes not in the index are not in it.
C11_StructuredRangeCoverage ==
    dialect = "A" =>
        \A i \in RangesOut :
            StructuredRange(CodeAt(i)) =>
                NarrowerAt(i) =
                    PointsUnderPrefix(RSplit1(LeftBound(CodeAt(i)), <<".">>)[1],
                                      RSplit1(LeftBound(CodeAt(i)), <<".">>)[2],
                                      RSplit1(RightBound(CodeAt(i)), <<".">>)[2])

\* A structured range 600.1-600.3 covers 600.1 while the deeper 600.1.2 is
\* indexed and left out.
C11_Witness ==
    /\ dialect = "A"
    /\ <<"6", "0", "0", ".", "1", ".", "2">> \in PointCodes
    /\ \E i \in RangesOut :
          /\ StructuredRange(CodeAt(i))
          /\ NarrowerAt(i) = {<<"6", "0", "0", ".", "1">>}

\* The adjacency rule of the dialect between two codes: in Dialect A d is
\* c + "." + one non-empty segment, in Dialect B d is c followed by one to
\* three digits.
Adjacent(c, d) ==
    IF dialect = "A"
    THEN /\ StartsWith(d, c \o <<".">>)
         /\ Len(d) > Len(c) + 1
         /\ ~Contains(SliceFrom(d, Len(c) + 1), <<".">>)
    ELSE /\ StartsWith(d, c)
         /\ IsDigit(SliceFrom(d, Len(c)))
         /\ Len(d) - Len(c) <= 3

\* children[c] of immediate_children_simple in the running dialect.
PointChildren(codes, c) ==
    IF dialect = "A" THEN immediate_children_simple_A(codes, c)
    ELSE immediate_children_simple_B(codes, c)

\* C12: the point-to-point child relation is the adjacency rule of the
\* dialect restricted to Point codes: d is a child of c iff d is adjacent to
\* c and neither is a Range code; the Point codes listed in narrower of a
\* Point code are exactly its adjacent Point codes.
C12_PointChildrenAreAdjacent ==
    /\ \A c \in IndexCodes(out.entries) : \A d \in IndexCodes(out.entries) :
          d \in PointChildren(IndexCodes(out.entries), c)
              <=> (Adjacent(c, d) /\ ~IsRangeCode(c) /\ ~IsRangeCode(d))
    /\ \A i \in PointsOut :
          NarrowerAt(i) \cap PointCodes
              = {d \in PointCodes : Adjacent(CodeAt(i), d)}

\* A Point code with an adjacent Point code listed, and a Range code that
\* is adjacent to it as a string.
C12_Witness ==
    \E i \in PointsOut : \E j \in RangesOut :
        /\ Adjacent(CodeAt(i), CodeAt(j))
        /\ CodeAt(j) \notin PointChildren(IndexCodes(out.entries), CodeAt(i))
        /\ NarrowerAt(i) \cap PointCodes # {}

\* C13: in Dialect B split_range gives, for a Range code with exactly two
\* parts around its doubled marker, two bounds that each begin with the
\* marker character ("-004--006" gives ("-004", "-006")), and none for a
\* Range code that does not split into exactly two parts.
C13_BoundsBeginWithMarker ==
    dialect = "B" =>
        \A i \in RangesOut :
            IF TwoBounds(CodeAt(i))
            THEN /\ split_range_B(CodeAt(i)) # <<>>
                 /\ StartsWith(split_range_B(CodeAt(i))[1], <<"-">>)
                 /\ StartsWith(split_range_B(CodeAt(i))[2], <<"-">>)
            ELSE split_range_B(CodeAt(i)) = <<>>

\* The Range code r of Dialect A has two bounds free of internal structure,
\* and its left bound is an indexed Point code.
UndottedRangeOnPoint(r) ==
    /\ TwoBounds(r)
    /\ ~Contains(r, <<".">>)
    /\ LeftBound(r) \in PointCodes

\* The Range code at i and its left bound list each other, and the left
\* bound is the broader of the Range code.
SelfCoverageAt(i) ==
    /\ BroaderAt(i) = LeftBound(CodeAt(i))
    /\ LeftBound(CodeAt(i)) \in NarrowerAt(i)
    /\ \A j \in PointsOut :
          CodeAt(j) = LeftBound(CodeAt(i)) => CodeAt(i) \in NarrowerAt(j)

CodeOf(e) == IF dialect = "A" THEN extract_code_A(e) ELSE extract_code_B(e)

\* The Range code r has no usable coverage: it does not split into exactly
\* two parts, or a bound fails numeric parsing, or (Dialect A) its dotted
\* bounds have different prefixes.
MalformedRange(r) ==
    /\ IsRangeCode(r)
    /\ \/ ~TwoBounds(r)
       \/ /\ dialect = "B"
          /\ ~(IsDigit(Unmarked(LeftBound(r))) /\ IsDigit(Unmarked(RightBound(r))))
       \/ /\ dialect = "A"
          /\ ~Contains(r, <<".">>)
          /\ ~(IsDigit(LeftBound(r)) /\ IsDigit(RightBound(r)))
       \/ /\ dialect = "A"
          /\ Contains(LeftBound(r), <<".">>)
          /\ Contains(RightBound(r), <<".">>)
          /\ \/ RSplit1(LeftBound(r), <<".">>)[1] # RSplit1(RightBound(r), <<".">>)[1]
             \/ ~IsDigit(RSplit1(LeftBound(r), <<".">>)[2])
             \/ ~IsDigit(RSplit1(RightBound(r), <<".">>)[2])

\* The code, broader and narrower (malformed ranges left aside) of every
\* annotated record of es that is not a malformed range.
HierarchyOfOthers(es) ==
    {<<es[i].bfCode, es[i].hier.broader,
       {n \in SetOf(es[i].hier.narrower) : ~MalformedRange(n)}>> :
        i \in {k \in DOMAIN es : /\ es[k].hier.has
                                  /\ ~MalformedRange(es[k].bfCode)}}

\* The input records that are not malformed ranges.
WithoutMalformed(entries) ==
    SelectSeq(entries, LAMBDA e : ~(Truthy(CodeOf(e)) /\ MalformedRange(CodeOf(e))))

\* C15: a Range code whose bound fails numeric parsing, whose dotted bounds
\* have different prefixes, or that does not split into exactly two parts
\* has narrower = [] in the output; the file is processed to the end, and
\* every other code has the broader and narrower it has when the file is
\* processed without the malformed Range codes.
C15_MalformedRangeIsEmpty ==
    src.kind = "list" =>
        /\ out.exists /\ ~aborted
        /\ Len(out.entries) = Len(src.entries)
        /\ \A i \in RangesOut : MalformedRange(CodeAt(i)) => NarrowerAt(i) = {}
        /\ HierarchyOfOthers(out.entries)
              = HierarchyOfOthers(process_entries(dialect,
                                                  WithoutMalformed(src.entries)))

\* A file with a malformed Range code and a Point code that has a broader.
C15_Witness ==
    /\ out.exists
    /\ \E i \in RangesOut : MalformedRange(CodeAt(i)) /\ NarrowerAt(i) = {}
    /\ \E j \in PointsOut : BroaderAt(j) # None

\* C16: a record from which no code can be extracted is not in the code
\* index, gets no hierarchy, and stands in the output at its place with
\* exactly the fields and values it had in the input.
C16_NoCodeEntryUnchanged ==
    (src.kind = "list" /\ out.exists) =>
        \A i \in DOMAIN src.entries :
            (src.entries[i].isDict /\ ~Truthy(CodeOf(src.entries[i]))) =>
                /\ out.entries[i].hier = src.entries[i].hier
                /\ out.entries[i] = src.entries[i]

\* C17: a failure raised while one file is processed, at read or parse time
\* or later in indexing, hierarchy computation or output writing, stays
\* within that file: main goes on with the other files and writes the
\* report, so no exception ever leaves process_file.
C17_FailureConfinedToFile == ~aborted

\* The kinds of file that process_file rejects.
RejectedKinds == {"parse error", "root not list"}

\* C18: when the content of a file cannot be parsed or its root is not a
\* list, only that file is given up: no output file is written for it,
\* exactly one line naming the file and the error is appended to the
\* report, and main stays in its loop over the files.
C18_RejectedFileAbortsAlone ==
    src.kind \in RejectedKinds =>
        /\ out = NoOutput
        /\ REPORT # <<>>
        /\ REPORT[Len(REPORT)].file = idx
        /\ REPORT[Len(REPORT)].kind = src.kind
        /\ Cardinality({k \in DOMAIN REPORT : REPORT[k].file = idx}) = 1
        /\ ~aborted

\* The second file of a run is rejected after a first file was processed.
C18_Witness ==
    /\ src.kind = "root not list"
    /\ idx = 2
    /\ Len(REPORT) >= 2
    /\ REPORT[1].kind \notin RejectedKinds
    /\ ~reportFile.exists

\* C19: after processing, the hierarchy field of every indexed record has
\* exactly the two sub-fields broader and narrower, whatever hierarchy
\* field the input record carried, in both dialects.
C19_ExactlyTwoSubFields ==
    \A i \in Annotated :
        out.entries[i].hier.keys = {"broader", "narrower"}

\* a stands before b in the order of their characters' code points, a
\* proper prefix standing before its extensions.
LexBefore(a, b) ==
    LET diff == {k \in 1..Min({Len(a), Len(b)}) : a[k] # b[k]}
    IN IF diff = {} THEN Len(a) < Len(b)
       ELSE Ord(a[Min(diff)]) < Ord(b[Min(diff)])

\* The three sources of children of the indexed code c: its point children,
\* the Point codes it covers as a Range, and the Ranges attached to it.
ChildSources(c) ==
    LET codes == IndexCodes(out.entries)
        points == {x \in codes : ~IsRangeCode(x)}
        ranges == {x \in codes : IsRangeCode(x)}
    IN IF dialect = "A"
       THEN immediate_children_simple_A(codes, c)
            \cup (IF c \in ranges THEN expand_range_children_A(c, points) ELSE {})
            \cup {r \in ranges : range_parent_A(r, points) = c}
       ELSE immediate_children_simple_B(codes, c)
            \cup (IF c \in ranges THEN expand_range_children_B(c, points) ELSE {})
            \cup {r \in ranges : range_parent_B(r, points) = c}

\* C20: the narrower list written for a code holds exactly its point
\* children, its range-covered children and the ranges attached to it, each
\* once, in strictly ascending order of the code strings (lexicographic,
\* not numeric).
C20_NarrowerIsSortedUnion ==
    \A i \in Annotated :
        /\ NarrowerAt(i) = ChildSources(CodeAt(i))
        /\ Len(out.entries[i].hier.narrower) = Cardinality(NarrowerAt(i))
        /\ \A k \in 1..(Len(out.entries[i].hier.narrower) - 1) :
              LexBefore(out.entries[i].hier.narrower[k],
                        out.entries[i].hier.narrower[k + 1])

\* narrower of "-" lists -09 before -2, against their numeric order.
C20_Witness ==
    /\ dialect = "B"
    /\ \E i \in PointsOut :
          /\ CodeAt(i) = <<"-">>
          /\ out.entries[i].hier.narrower = << <<"-", "0", "9">>, <<"-", "2">> >>

\* C21: all entries of a file that map to the same code carry the same
\* hierarchy output (same broader, same narrower), however many they are
\* and wherever they stand in the list.
C21_DuplicatesAgree ==
    \A i \in DOMAIN out.entries : \A j \in DOMAIN out.entries :
        ( /\ out.entries[i].isDict /\ out.entries[j].isDict
          /\ Truthy(CodeAt(i))
          /\ CodeAt(i) = CodeAt(j) )
        => /\ out.entries[i].hier.has /\ out.entries[j].hier.has
           /\ BroaderAt(i) = BroaderAt(j)
           /\ out.entries[i].hier.narrower = out.entries[j].hier.narrower

\* Two entries of one code stand first and last in a file of three, with a
\* child between them.
C21_Witness ==
    /\ out.exists
    /\ Len(out.entries) = 3
    /\ CodeAt(1) = CodeAt(3)
    /\ out.entries[1].hier.has
    /\ CodeAt(2) \in NarrowerAt(1)
    /\ CodeAt(2) \in NarrowerAt(3)

\* C22: process_file leaves the number and the order of the items of the
\* list unchanged and changes no field of a record other than bfCode and
\* hierarchy; items that are not records are passed through untouched.
C22_OnlyCodeAndHierarchyChange ==
    (src.kind = "list" /\ out.exists) =>
        /\ Len(out.entries) = Len(src.entries)
        /\ \A i \in DOMAIN src.entries :
              IF src.entries[i].isDict
              THEN [out.entries[i] EXCEPT !.bfCode = Absent, !.hier = NoHier]
                   = [src.entries[i] EXCEPT !.bfCode = Absent, !.hier = NoHier]
              ELSE out.entries[i] = src.entries[i]

\* A file with an item that is not a record between two records, one of
\* which gets the other as broader.
C22_Witness ==
    /\ src.kind = "list"
    /\ out.exists
    /\ Len(src.entries) = 3
    /\ ~src.entries[2].isDict
    /\ out.entries[3].hier.has
    /\ out.entries[3].hier.broader = CodeAt(1)

C30_BroaderImpliesListed ==
    \A i \in PointsOut :
        BroaderAt(i) # None =>
            \A j \in PointsOut :
                CodeAt(j) = BroaderAt(i) => CodeAt(i) \in NarrowerAt(j)

\* C24: in every run of the driver the notes of a page's continuation
\* sentinel are appended to the last real concept of the pages before the
\* sentinel's page, never to an object of the same or a later page, and no
\* sentinel stays in merged.
C24_NotesGoToEarlierPage ==
    \A k \in DOMAIN merged :
        /\ merged[k].id # CONT_SENTINEL_ID
        /\ \A n \in SetOf(merged[k].notes) :
              /\ merged[k].page < n
              /\ \A j \in DOMAIN merged :
                    merged[j].page < n => merged[j].page <= merged[k].page

\* C25: without --force a page that had a valid checkpoint when the run
\* began is not sent to the model and its checkpoint file is not written
\* during the run, with one page or two pages per call.
C25_ValidCheckpointIsSkipped ==
    ~args.force =>
        /\ preloaded \cap sent = {}
        /\ preloaded \cap rewritten = {}

\* C26: the final file written at the end of a run holds the objects of
\* every selected page that has a checkpoint exactly once, in ascending
\* page order.
C26_FinalIsRebuiltFromCheckpoints ==
    pc = "done" =>
        /\ \A p \in 1..NPages :
              checkpoints[p].exists =>
                  Cardinality({k \in DOMAIN final.objs : final.objs[k].page = p})
                      = Len(checkpoints[p].objs)
        /\ \A j \in DOMAIN final.objs : \A k \in DOMAIN final.objs :
              j < k => final.objs[j].page <= final.objs[k].page

\* C27: a page or pair is tried at most max_attempts times, a page of a
\* pair given up after max_attempts failures has no checkpoint written in
\* the run, and every run reaches the final write.
C27_BoundedRetries ==
    /\ [](attempt <= max_attempts /\ failed \cap rewritten = {})
    /\ [](pc \in {"loop", "attempt"} => <>(pc = "done" /\ final.exists))

\* C28: a failed attempt leaves merged, the checkpoint files and
\* processed_pages as they were before the attempt.
C28_FailedAttemptChangesNothing ==
    [][(pc = "attempt" /\ pc' = "attempt" /\ attempt' = attempt + 1) =>
          /\ merged' = merged
          /\ checkpoints' = checkpoints
          /\ processed_pages' = processed_pages
      ]_vars

\* C29: the notes carried over onto a concept of an earlier page are in
\* that page's checkpoint file, so a run that preloads the checkpoints
\* still has them.
C29_CheckpointHoldsCarriedNotes ==
    \A k \in DOMAIN merged :
        \A n \in SetOf(merged[k].notes) :
            /\ checkpoints[merged[k].page].exists
            /\ \E j \in DOMAIN checkpoints[merged[k].page].objs :
                  n \in SetOf(checkpoints[merged[k].page].objs[j].notes)

====
